---- MODULE Spec2Model ----
(***************************************************************************)
(* A model of gps_time (src/gps_time.c): the read loop of main(), the      *)
(* byte-at-a-time sentence framer process(), and the RMC parser            *)
(* gps_line() with its helpers crack() and getvalue().                     *)
(*                                                                         *)
(* Characters are their byte values 0..255.  The capture buffer `input`    *)
(* is the whole 512-byte array, stale bytes included, and every C string   *)
(* operation works on array indices the way the C code works on pointers.  *)
(***************************************************************************)
EXTENDS Integers, Sequences, FiniteSets, TLC

VARIABLES
    state,      \* process(): static int state
    inpos,      \* process(): static int inpos
    input,      \* char input[BUFFER_SIZE]
    rdata,      \* the bytes of rdata[] that main() has read and not yet processed (cp .. cp+i-1)
    pc,         \* "run" while main() loops, "exit" once exit() was called
    status,     \* the exit status (NoStatus while running)
    nread,      \* number of successful read() calls so far
    done,       \* history: every byte handed to process() so far
    emitted,    \* history: one record per gps_line() call
    env,        \* which family of device output this run draws from
    charSigned  \* whether plain char is signed in this build

vars == <<state, inpos, input, rdata, pc, status, nread, done, emitted, env, charSigned>>

----------------------------------------------------------------------------
(* Text to bytes.  A TLA+ string cannot hold a backquote, so the printable  *)
(* ASCII range is given in two runs: 32..95 and 97..126.                    *)

Upper == " !\"#$%&'()*+,-./0123456789:;<=>?@ABCDEFGHIJKLMNOPQRSTUVWXYZ[\\]^_"
Lower == "abcdefghijklmnopqrstuvwxyz{|}~"

Ord(c) ==
    IF \E k \in 1..Len(Upper) : SubSeq(Upper, k, k) = c
    THEN 31 + CHOOSE k \in 1..Len(Upper) : SubSeq(Upper, k, k) = c
    ELSE 96 + CHOOSE k \in 1..Len(Lower) : SubSeq(Lower, k, k) = c

Str(t) == [k \in 1..Len(t) |-> Ord(SubSeq(t, k, k))]

NUL == 0
LF == 10
CR == 13
DOLLAR == 36
STAR == 42
COMMA == 44
CRLF == <<CR, LF>>

----------------------------------------------------------------------------
(* Program constants *)

BUFFER_SIZE == 512
ST_WAITNL == 0
ST_WAITDL == 1
ST_CAPTURE == 2
MAXARGS == 20
RMC_ARGS == 13
NULL == -1      \* the null pointer, as an index that is no index of input[]
NoStatus == -1  \* the process has not exited

\* LONG_MAX of a 32-bit long. With a 64-bit long strtol() clamps at 2^63-1
\* instead; either way a clamped value is far from any csum.
LONG_MAX == 2147483647

----------------------------------------------------------------------------
(* <ctype.h> and the value of a plain char *)

CharVal(b) == IF charSigned /\ b >= 128 THEN b - 256 ELSE b

isspace(c) == c \in {9, 10, 11, 12, 13, 32}
isdigit(c) == c \in 48..57

HexVal(c) ==
    IF c \in 48..57 THEN c - 48
    ELSE IF c \in 65..70 THEN c - 55
    ELSE IF c \in 97..102 THEN c - 87
    ELSE -1

(* Bitwise exclusive or of two ints.  BitXor works on naturals; a negative *)
(* operand is handled through ~x = -1 - x, and (~x)^y = ~(x^y).            *)
RECURSIVE BitXor(_, _)
BitXor(a, b) ==
    IF a = 0 THEN b
    ELSE IF b = 0 THEN a
    ELSE (((a % 2) + (b % 2)) % 2) + (2 * BitXor(a \div 2, b \div 2))

IntXor(a, b) ==
    IF a >= 0 /\ b >= 0 THEN BitXor(a, b)
    ELSE IF a < 0 /\ b < 0 THEN BitXor(-1 - a, -1 - b)
    ELSE IF a < 0 THEN -1 - BitXor(-1 - a, b)
    ELSE -1 - BitXor(a, -1 - b)

----------------------------------------------------------------------------
(* C strings in the buffer *)

\* The first index at or after p whose byte is in S.  A C string always
\* ends: a scan finds its NUL inside the buffer.
FirstIn(buf, p, S) ==
    CHOOSE e \in p..(BUFFER_SIZE - 1) :
        buf[e] \in S /\ \A j \in p..(e - 1) : buf[j] \notin S

strlen(buf, p) == FirstIn(buf, p, {NUL}) - p

\* The C string that starts at index p: the bytes up to the first NUL.
CStr(buf, p) == [k \in 1..strlen(buf, p) |-> buf[p + k - 1]]

\* strchr(buf + p, c): the index of the first c at or after p, NULL if the
\* string ends first.
strchr(buf, p, c) ==
    LET e == FirstIn(buf, p, {c, NUL}) IN
    IF buf[e] = c THEN e ELSE NULL

\* strncmp(input, "GPRMC", 5) == 0
IsRMC(buf) == \A k \in 1..5 : buf[k - 1] = Str("GPRMC")[k]

\* The exclusive or of f[lo], ..., f[hi].  The fold is taken in halves to
\* keep the evaluation shallow; XOR is associative, so the result is that
\* of the left-to-right loop.
RECURSIVE XorFold(_, _, _)
XorFold(f, lo, hi) ==
    IF lo > hi THEN 0
    ELSE IF lo = hi THEN f[lo]
    ELSE LET mid == (lo + hi) \div 2
         IN  IntXor(XorFold(f, lo, mid), XorFold(f, mid + 1, hi))

\* The checksum loop of gps_line(): from the start, stop at '*' or at the
\* NUL, folding every character passed into csum.
ScanSum(buf) ==
    LET cp == FirstIn(buf, 0, {NUL, STAR})
    IN  [cp |-> cp,
         csum |-> XorFold([k \in 0..(cp - 1) |-> CharVal(buf[k])], 0, cp - 1)]

\* strtol(buf + p, NULL, 16): white space, an optional sign, an optional
\* 0x, then hex digits up to the first character that is none.
RECURSIVE SkipSpace(_, _)
SkipSpace(buf, p) == IF isspace(CharVal(buf[p])) THEN SkipSpace(buf, p + 1) ELSE p

\* Faulty variant: two hex digits at most are read
HexDigits_TwoOnly(buf, p, acc) ==
    IF HexVal(buf[p]) < 0 THEN acc
    ELSE IF HexVal(buf[p + 1]) < 0 THEN acc * 16 + HexVal(buf[p])
    ELSE (acc * 16 + HexVal(buf[p])) * 16 + HexVal(buf[p + 1])

RECURSIVE HexDigits(_, _, _)
HexDigits(buf, p, acc) ==
    LET d == HexVal(buf[p]) IN
    IF d < 0 THEN acc
    ELSE IF acc > (LONG_MAX - d) \div 16 THEN LONG_MAX
    ELSE HexDigits(buf, p + 1, acc * 16 + d)

strtol16(buf, p) ==
    LET s == SkipSpace(buf, p)
        neg == buf[s] = Ord("-")
        t == IF buf[s] \in {Ord("-"), Ord("+")} THEN s + 1 ELSE s
        u == IF /\ buf[t] = Ord("0")
                /\ buf[t + 1] \in {Ord("x"), Ord("X")}
                /\ HexVal(buf[t + 2]) >= 0
             THEN t + 2 ELSE t
        v == HexDigits(buf, u, 0)
    IN  IF neg THEN -v ELSE v

----------------------------------------------------------------------------
(* crack(): split at commas, in place *)

RECURSIVE crackLoop(_, _, _, _, _)
crackLoop(buf, strp, argv, n, maxargs) ==
    IF n >= maxargs THEN [count |-> n + 1, argv |-> argv, buf |-> buf]
    ELSE
        LET s == SkipSpace(buf, strp) IN
        IF buf[s] = NUL THEN [count |-> n, argv |-> argv, buf |-> buf]
        ELSE
            LET c == strchr(buf, s, COMMA)
                buf1 == IF c # NULL THEN [buf EXCEPT ![c] = NUL] ELSE buf
                strp1 == IF c # NULL THEN c + 1 ELSE NULL
                argv1 == Append(argv, s)
            IN  IF strp1 = NULL \/ buf1[strp1] = NUL
                THEN [count |-> n + 1, argv |-> argv1, buf |-> buf1]
                ELSE crackLoop(buf1, strp1, argv1, n + 1, maxargs)

\* argv[n] of the C code is argv[n + 1] of the sequence returned.
crack(buf, strp, maxargs) ==
    IF strp = NULL \/ buf[strp] = NUL
    THEN [count |-> 0, argv |-> <<>>, buf |-> buf]
    ELSE crackLoop(buf, strp, <<>>, 0, maxargs)

----------------------------------------------------------------------------
(* getvalue(): up to ndigits leading digits *)

RECURSIVE getvalueLoop(_, _, _, _)
getvalueLoop(buf, strp, ndigits, value) ==
    IF ndigits # 0 /\ isdigit(CharVal(buf[strp]))
    THEN getvalueLoop(buf, strp + 1, ndigits - 1, value * 10 + buf[strp] - 48)
    ELSE value

\* Faulty variant: the digit count is not honoured
getvalue_AllDigits(buf, strp, ndigits) == getvalueLoop(buf, strp, -1, 0)

getvalue(buf, strp, ndigits) == getvalueLoop(buf, strp, ndigits, 0)

----------------------------------------------------------------------------
(* gps_line(): what it does with the line in the buffer, up to the call of *)
(* settimeofday().  outcome is the branch taken; for "settime" tm and usec *)
(* are the argument of the call (tv_sec is mktime(&tm), tv_usec is usec).  *)
(* count and argv are what crack() returned and filled in, 0 and empty     *)
(* when gps_line() returned before calling it.                             *)

NoTm == [sec |-> 0, min |-> 0, hour |-> 0, mday |-> 0, mon |-> 0, year |-> 0]

Rejected(why, buf) ==
    [outcome |-> why, buf |-> buf, tm |-> NoTm, usec |-> 0, count |-> 0, argv |-> <<>>]

DecodeTm(buf, args) ==
    [sec  |-> getvalue(buf, args[2] + 4, 2),
     min  |-> getvalue(buf, args[2] + 2, 2),
     hour |-> getvalue(buf, args[2], 2),
     mday |-> getvalue(buf, args[10], 2),
     mon  |-> getvalue(buf, args[10] + 2, 2) - 1,
     year |-> getvalue(buf, args[10] + 4, 2) + 100]

DecodeUsec(buf, args) == getvalue(buf, args[2] + 7, 3) * 1000

\* Faulty variant: the comparison of line 265 left out
ChecksumOK_AnySum(buf, sc) == TRUE

\* Faulty variant: only the low seven bits are compared
ChecksumOK_LowBits(buf, sc) == strtol16(buf, sc.cp + 1) % 128 = sc.csum % 128

ChecksumOK(buf, sc) == strtol16(buf, sc.cp + 1) = sc.csum

\* Faulty variant: thirteen fields wanted after the sentence word
FieldCountOK_AfterWord(count) == count = RMC_ARGS + 1

FieldCountOK(count) == count = RMC_ARGS

gps_line(buf) ==
    IF ~IsRMC(buf) THEN Rejected("not_rmc", buf)
    ELSE
        LET sc == ScanSum(buf) IN
        IF buf[sc.cp] # STAR THEN Rejected("no_star", buf)
        ELSE IF ~ChecksumOK(buf, sc) THEN Rejected("bad_checksum", buf)
        ELSE
            LET buf1 == [buf EXCEPT ![sc.cp] = NUL]
                ck == crack(buf1, 0, MAXARGS)
            IN  IF ~FieldCountOK(ck.count)
                THEN [outcome |-> "bad_count", buf |-> ck.buf, tm |-> NoTm, usec |-> 0,
                      count |-> ck.count, argv |-> ck.argv]
                ELSE [outcome |-> "settime", buf |-> ck.buf,
                      tm |-> DecodeTm(ck.buf, ck.argv),
                      usec |-> DecodeUsec(ck.buf, ck.argv),
                      count |-> ck.count, argv |-> ck.argv]

----------------------------------------------------------------------------
(* The GPS device: what read() can return.  A chunk is the result of one   *)
(* read(): between 1 and BUFFER_SIZE bytes.  Each run draws its chunks     *)
(* from one family, env.                                                   *)

MaxReads == 3   \* reads per run when the device sends whole lines
MaxBytes == 5   \* reads per run when the device sends single bytes
MaxFields == 14 \* most fields after the sentence word in the field-count family
MaxMany == 21   \* most fields after the sentence word in the many-fields family

\* The XOR of a sentence body as the device computes it, and its two hex digits.
NmeaSum(body) == XorFold(body, 1, Len(body))

HexDigit(v) == Str("0123456789ABCDEF")[v + 1]

SumText(body) == <<STAR, HexDigit(NmeaSum(body) \div 16), HexDigit(NmeaSum(body) % 16)>>

Sentence(body) == <<DOLLAR>> \o body \o SumText(body)

Fill(n, c) == [k \in 1..n |-> c]

\* The sample message of the README: its body, and the line as printed.
ReadmeBody == Str("GPRMC,211321.000,A,5309.7743,N,01204.5576,W,0.17,78.41,200813,,,A")
ReadmeLine == <<DOLLAR>> \o ReadmeBody \o Str("*4E")

ShortBody == Str("GPRMC,123456.789,A,,,,,,,200813,,,A")
TrailingCommaBody == Str("GPRMC,123456.789,A,,,,,,,200813,,,A,")

ReadmeChunks ==
    { CRLF,
      ReadmeLine \o CRLF,
      Sentence(ReadmeBody) \o CRLF }

LineChunks ==
    { CRLF,
      Sentence(ShortBody) \o CRLF,
      <<DOLLAR>> \o ShortBody \o Str("*00") \o CRLF,
      <<DOLLAR>> \o ShortBody \o CRLF,
      Sentence(Str("GPGGA,123456,1")) \o CRLF,
      Sentence(Str("GPRMC,123456.789,A,,,,,,,200813,,A")) \o CRLF,
      Sentence(TrailingCommaBody) \o CRLF }

\* A full read of 512 bytes that ends in the middle of a line, 509 bytes
\* after its `$`; two more bytes, which make the line one byte too long
\* for the buffer, with a sentence after them; and one more byte, which
\* makes the longest line that fits.
LongChunks ==
    { CRLF \o <<DOLLAR>> \o Fill(BUFFER_SIZE - 3, Ord("A")),
      Fill(2, Ord("A")) \o CRLF \o Sentence(ShortBody) \o CRLF,
      Fill(1, Ord("A")) \o CRLF }

ByteChunks == { <<c>> : c \in {DOLLAR, STAR, CR, LF, NUL, Ord("G")} }

\* One bit of one character of a sentence body flipped on the wire.
FlipBit(c, b) == BitXor(c, 2 ^ b)

FlipAt(body, p, b) == [body EXCEPT ![p] = FlipBit(body[p], b)]

\* A body whose part before the '.' has the XOR 0x1A that follows the '.'.
DotBody == Str("GPRMC,1,2,3,4,5,6,7,8,9,a,b,c.1A")
SpaceBody == Str("GPRMC,123456.789, A,,,,,,,200813,,,A")

CsumBodies == {DotBody, SpaceBody}

CsumChunk(body, flipped) == CRLF \o <<DOLLAR>> \o flipped \o SumText(body) \o CRLF

CsumChunks ==
    { CsumChunk(body, body) : body \in CsumBodies }
    \cup UNION { { CsumChunk(body, FlipAt(body, p, b)) : p \in 1..Len(body), b \in 0..7 }
                 : body \in CsumBodies }

\* GPRMC followed by k fields: k - 1 times `mid`, then `last`.
RECURSIVE Commas(_, _)
Commas(k, mid) == IF k = 0 THEN <<>> ELSE <<COMMA>> \o mid \o Commas(k - 1, mid)

FieldsBody(k, mid, last) == Str("GPRMC") \o Commas(k - 1, mid) \o <<COMMA>> \o last

FieldsChunks ==
    { CRLF \o Sentence(FieldsBody(k, mid, last)) \o CRLF :
        k \in 10..MaxFields,
        mid \in {<<>>, Str("7"), Str(" 7")},
        last \in {Str("A"), <<>>, Str(" ")} }

\* Sentences with few fields and with about as many as args[] has slots.
ManyChunks ==
    { CRLF \o Sentence(FieldsBody(k, mid, last)) \o CRLF :
        k \in {1, 2} \cup 18..MaxMany,
        mid \in {<<>>, Str("7")},
        last \in {Str("A"), <<>>} }

\* RMC sentences of 13 fields whose time and date fields are whole, short,
\* empty or hold a letter, next to fields that hold digits or are empty.
DecodeBody(time, f2, date, f10) ==
    Str("GPRMC,") \o time \o <<COMMA>> \o f2 \o Str(",,,,,,,") \o date
        \o <<COMMA>> \o f10 \o Str(",,A")

DecodeTimes ==
    {Str("123456.789"), <<>>, Str("12"), Str("1234"), Str("12345a.78"), Str("1a3456.7"),
     Str("123456.7")}

DecodeDates == {Str("200813"), <<>>, Str("20"), Str("2a0813")}

DecodeChunks ==
    { CRLF \o Sentence(DecodeBody(time, f2, date, f10)) \o CRLF :
        time \in DecodeTimes, f2 \in {Str("A"), Str("5309")},
        date \in DecodeDates, f10 \in {<<>>, Str("99")} }

\* A sentence whose two checksum digits, right or 00, are followed by more
\* characters before the line end.
TailChunk(body, hh, tail) ==
    CRLF \o <<DOLLAR>> \o body \o <<STAR>> \o hh \o tail \o CRLF

Tails == {<<>>, Str("0"), Str("5C"), Str("44"), Str("zz"), Str(","), Str("G0"), Str(" 0")}

TailChunks ==
    UNION { { TailChunk(body, hh, tail) : hh \in {Tail(SumText(body)), Str("00")}, tail \in Tails }
            : body \in {ShortBody, ReadmeBody} }

Chunks(e) ==
    CASE e = "readme" -> ReadmeChunks
      [] e = "lines" -> LineChunks
      [] e = "long" -> LongChunks
      [] e = "bytes" -> ByteChunks
      [] e = "csum" -> CsumChunks
      [] e = "fields" -> FieldsChunks
      [] e = "many" -> ManyChunks
      [] e = "decode" -> DecodeChunks
      [] e = "tail" -> TailChunks

ReadLimit(e) ==
    CASE e \in {"readme", "lines", "long"} -> MaxReads
      [] e = "bytes" -> MaxBytes
      [] e \in {"csum", "fields", "many", "decode", "tail"} -> 1

----------------------------------------------------------------------------
(* The program *)

InitProgram ==
    /\ state = ST_WAITNL
    /\ inpos = 0
    /\ input = [k \in 0..(BUFFER_SIZE - 1) |-> NUL]
    /\ rdata = <<>>
    /\ pc = "run"
    /\ status = NoStatus
    /\ nread = 0
    /\ done = <<>>
    /\ emitted = <<>>

\* main(): read() returned i > 0 bytes into rdata.
Read ==
    /\ pc = "run"
    /\ rdata = <<>>
    /\ nread < ReadLimit(env)
    /\ \E c \in Chunks(env) : rdata' = c
    /\ nread' = nread + 1
    /\ UNCHANGED <<state, inpos, input, pc, status, done, emitted, env, charSigned>>

\* main(): read() returned 0 (end of file) or -1 (error): the loop ends and
\* main() calls exit(0).
ReadEnd ==
    /\ pc = "run"
    /\ rdata = <<>>
    /\ pc' = "exit"
    /\ status' = 0
    /\ UNCHANGED <<state, inpos, input, rdata, nread, done, emitted, env, charSigned>>

\* process(): the tests on ch, state and inpos.
IsLineEnd(ch) == ch = LF \/ ch = CR

\* Faulty variant: gps_line() is called at every line end but in ST_WAITNL
CallsGpsLine_Waiting(st) == st # ST_WAITNL

CallsGpsLine(st) == st = ST_CAPTURE

\* Faulty variant: a line end leaves the framer waiting for another line end
AfterLineEnd_Stuck == ST_WAITNL

AfterLineEnd == ST_WAITDL

\* Faulty variant: any first byte of a line starts a capture
AfterDollarWait_Any(ch) == ST_CAPTURE

\* Faulty variant: the framer goes on waiting for a `$` inside the line
AfterDollarWait_Resync(ch) == IF ch = DOLLAR THEN ST_CAPTURE ELSE ST_WAITDL

AfterDollarWait(ch) == IF ch = DOLLAR THEN ST_CAPTURE ELSE ST_WAITNL

\* Faulty variant: the room for the NUL is not kept
LineTooLong_NoMargin(pos) == pos >= BUFFER_SIZE

\* Faulty variant: one byte less fits
LineTooLong_Early(pos) == pos >= BUFFER_SIZE - 3

LineTooLong(pos) == pos >= BUFFER_SIZE - 2

\* Faulty variant: the bytes that do not fit are dropped and the capture goes on
AfterTooLong_Truncate == ST_CAPTURE

AfterTooLong == ST_WAITNL

\* gps_line(): exit(0) when settimeofday() returned 0; otherwise perror()
\* and return.
\* Faulty variant: no exit(0) after a successful call
ExitsAfterSet_Never(ok) == FALSE

ExitsAfterSet(ok) == ok

\* process(): input[inpos++] = '\0' before gps_line() is called.
\* Faulty variant: the line is not terminated
Terminate_Forgot(buf, pos) == buf

Terminate(buf, pos) == [buf EXCEPT ![pos] = NUL]

\* The record kept of one gps_line() call: the line as passed, the branch
\* taken, the argument of settimeofday() and whether it succeeded, the
\* index in `done` of the line end that caused the call, and what crack()
\* returned and stored in args[].
Emission(buf, r, ok) ==
    [line |-> CStr(buf, 0), outcome |-> r.outcome, tm |-> r.tm, usec |-> r.usec,
     ok |-> ok, at |-> Len(done) + 1, count |-> r.count, args |-> r.argv]

\* process(ch) for a '\n' or '\r' while capturing: terminate the line and
\* call gps_line().  settimeofday() succeeds (ok) or fails; on success
\* gps_line() calls exit(0) and process() never returns.
ProcessLine ==
    LET buf == Terminate(input, inpos)
        r == gps_line(buf)
    IN  /\ input' = r.buf
        /\ inpos' = inpos + 1
        /\ \E ok \in (IF r.outcome = "settime" THEN BOOLEAN ELSE {FALSE}) :
              /\ emitted' = Append(emitted, Emission(buf, r, ok))
              /\ IF ExitsAfterSet(ok)
                 THEN pc' = "exit" /\ status' = 0 /\ state' = state
                 ELSE pc' = pc /\ status' = status /\ state' = AfterLineEnd

\* main(): process(*cp++) for the next byte of rdata.
Process ==
    /\ pc = "run"
    /\ rdata # <<>>
    /\ LET ch == Head(rdata) IN
        /\ rdata' = Tail(rdata)
        /\ done' = Append(done, ch)
        /\ IF IsLineEnd(ch) THEN
                IF CallsGpsLine(state) THEN ProcessLine
                ELSE /\ state' = AfterLineEnd
                     /\ UNCHANGED <<inpos, input, pc, status, emitted>>
           ELSE IF state = ST_WAITDL THEN
                /\ inpos' = 0
                /\ state' = AfterDollarWait(ch)
                /\ UNCHANGED <<input, pc, status, emitted>>
           ELSE IF state # ST_CAPTURE THEN
                UNCHANGED <<state, inpos, input, pc, status, emitted>>
           ELSE IF LineTooLong(inpos) THEN
                /\ state' = AfterTooLong
                /\ UNCHANGED <<inpos, input, pc, status, emitted>>
           ELSE /\ input' = [input EXCEPT ![inpos] = ch]
                /\ inpos' = inpos + 1
                /\ UNCHANGED <<state, pc, status, emitted>>
    /\ UNCHANGED <<nread, env, charSigned>>

Next == Read \/ ReadEnd \/ Process

\* The device sends whole lines, long lines or single bytes.
Init ==
    /\ InitProgram
    /\ env \in {"readme", "lines", "long", "bytes"}
    /\ charSigned = TRUE

Spec == Init /\ [][Next]_vars

\* The device sends one sentence, intact or with one bit flipped; plain
\* char is signed or unsigned.
InitChecksum ==
    /\ InitProgram
    /\ env = "csum"
    /\ charSigned \in BOOLEAN

SpecChecksum == InitChecksum /\ [][Next]_vars

\* The device sends one GPRMC sentence with some number of fields.
InitFields ==
    /\ InitProgram
    /\ env = "fields"
    /\ charSigned = TRUE

SpecFields == InitFields /\ [][Next]_vars

\* The device sends one GPRMC sentence with few or with very many fields.
InitCrack ==
    /\ InitProgram
    /\ env = "many"
    /\ charSigned = TRUE

SpecCrack == InitCrack /\ [][Next]_vars

\* The device sends one RMC sentence of 13 fields.
InitDecode ==
    /\ InitProgram
    /\ env = "decode"
    /\ charSigned = TRUE

SpecDecode == InitDecode /\ [][Next]_vars

\* The device sends one sentence with something after its checksum digits.
InitTail ==
    /\ InitProgram
    /\ env = "tail"
    /\ charSigned = TRUE

SpecTail == InitTail /\ [][Next]_vars

\* The device sends long lines, single bytes, sentences of many fields or
\* sentences with short time and date fields.
InitBounds ==
    /\ InitProgram
    /\ env \in {"long", "bytes", "many", "decode"}
    /\ charSigned = TRUE

SpecBounds == InitBounds /\ [][Next]_vars

----------------------------------------------------------------------------
(* Properties.  They are stated over the history: `done`, the bytes handed *)
(* to process(), and `emitted`, the gps_line() calls.  Both only grow, so  *)
(* a property of the line that has just ended, holding in every reachable  *)
(* state, holds of every line of every run.                                *)

IsTerm(c) == c \in {CR, LF}

Last(s) == s[Len(s)]

Emissions == {emitted[k] : k \in DOMAIN emitted}

EmittedAt(j) == {e \in Emissions : e.at = j}

\* The index of the last line end before index j of done, 0 if there is none.
PrevTerm(j) ==
    CHOOSE i \in 0..(j - 1) :
        /\ i = 0 \/ IsTerm(done[i])
        /\ \A m \in (i + 1)..(j - 1) : ~IsTerm(done[m])

\* The last byte processed ended a line that began right after a line end.
JustEnded == done # <<>> /\ IsTerm(Last(done)) /\ PrevTerm(Len(done)) >= 1

\* That line: the bytes between the two line ends.
EndedLine == SubSeq(done, PrevTerm(Len(done)) + 1, Len(done) - 1)

\* A fresh buffer holding s as a C string.
LineBuf(s) == [k \in 0..(BUFFER_SIZE - 1) |-> IF k < Len(s) THEN s[k + 1] ELSE NUL]

ReadmeTm == [sec |-> 21, min |-> 13, hour |-> 21, mday |-> 20, mon |-> 7, year |-> 113]
ShortTm == [sec |-> 56, min |-> 34, hour |-> 12, mday |-> 20, mon |-> 7, year |-> 113]

C2_Original ==
    \A e \in Emissions :
        (e.outcome = "settime" /\ ~e.ok) =>
            /\ pc = "exit"
            /\ status \notin {0, NoStatus}
            /\ Len(done) = e.at

\* The part of a line before its first `*`, the text after it, and the
\* number of fields that splitting at commas yields.
StarAt(l) == CHOOSE i \in DOMAIN l : l[i] = STAR /\ \A m \in 1..(i - 1) : l[m] # STAR

BeforeStar(l) == SubSeq(l, 1, StarAt(l) - 1)

AfterStar(l) == SubSeq(l, StarAt(l) + 1, Len(l))

CommaFields(s) == Cardinality({i \in DOMAIN s : s[i] = COMMA}) + 1

\* C3 as stated: settimeofday() is called for a line only if the line
\* starts with GPRMC, holds a `*`, the XOR of the characters before the
\* first `*` is the hexadecimal value after it, and the part before the `*`
\* splits at commas into exactly 13 fields.
C3_Original ==
    \A e \in Emissions :
        e.outcome = "settime" =>
            /\ Len(e.line) >= 5 /\ SubSeq(e.line, 1, 5) = Str("GPRMC")
            /\ \E i \in DOMAIN e.line : e.line[i] = STAR
            /\ XorFold([k \in DOMAIN BeforeStar(e.line) |-> CharVal(BeforeStar(e.line)[k])],
                       1, Len(BeforeStar(e.line)))
                 = strtol16(LineBuf(AfterStar(e.line)), 0)
            /\ CommaFields(BeforeStar(e.line)) = 13

\* C4: a rejected line never stops the pipeline.  Whatever was processed
\* before, a step that processes a byte without an accepted sentence leaves
\* the process running, in ST_WAITDL if the byte was a line end; and a valid
\* GPRMC line that follows a line end is passed to gps_line(), accepted, and
\* leads to the settimeofday() call that the same line gets in a fresh
\* buffer.
C4_ValidLines == {Sentence(ShortBody), Sentence(ReadmeBody)}

C4_Accepted ==
    (JustEnded /\ EndedLine \in C4_ValidLines) =>
        \E e \in EmittedAt(Len(done)) :
            /\ e.line = Tail(EndedLine)
            /\ e.outcome = "settime"
            /\ e.tm = gps_line(LineBuf(e.line)).tm
            /\ e.usec = gps_line(LineBuf(e.line)).usec
            /\ e.tm = IF EndedLine = Sentence(ShortBody) THEN ShortTm ELSE ReadmeTm

C4_KeepsRunning ==
    (Len(done') > Len(done) /\ (emitted' = emitted \/ ~Last(emitted').ok)) =>
        /\ pc' = "run"
        /\ IsTerm(Last(done')) => state' = ST_WAITDL

C4_RejectionNeverStops == [](C4_Accepted) /\ [][C4_KeepsRunning]_vars

\* A rejected line came first, and a valid line after it was accepted.
C4_Witness ==
    /\ JustEnded /\ EndedLine \in C4_ValidLines
    /\ Len(emitted) >= 2
    /\ emitted[1].outcome \in {"not_rmc", "no_star", "bad_checksum", "bad_count"}
    /\ Last(emitted).outcome = "settime"

\* C5: while no `$` has been handed to process(), the framer is not in
\* ST_CAPTURE and gps_line() has not been called.
C5_NoDollarNoSentence ==
    (\A k \in DOMAIN done : done[k] # DOLLAR) =>
        state # ST_CAPTURE /\ emitted = <<>>

C5_Witness ==
    /\ Len(done) >= 4
    /\ \A k \in DOMAIN done : done[k] # DOLLAR
    /\ \E k \in DOMAIN done : IsTerm(done[k]) /\ k < Len(done) /\ ~IsTerm(done[k + 1])
    /\ state = ST_WAITNL

\* A sentence as the device sends it: `$`, a body, `*` and two hex digits,
\* no line end or NUL inside, and a body-and-checksum text that fits the
\* buffer.
WellFormed(l) ==
    /\ Len(l) >= 4
    /\ l[1] = DOLLAR
    /\ l[Len(l) - 2] = STAR /\ HexVal(l[Len(l) - 1]) >= 0 /\ HexVal(l[Len(l)]) >= 0
    /\ \A k \in DOMAIN l : l[k] \notin {CR, LF, NUL}
    /\ Len(l) - 1 <= BUFFER_SIZE - 2

\* C6 as stated: a well-formed `$<body>*HH` CR LF handed to the framer as
\* the first bytes of a run yields exactly one gps_line() call, for the bytes
\* between the `$` and the CR.
C6_Original ==
    (/\ Len(done) >= 2
     /\ done[Len(done) - 1] = CR /\ done[Len(done)] = LF
     /\ WellFormed(SubSeq(done, 1, Len(done) - 2))) =>
        /\ Len(emitted) = 1
        /\ emitted[1].line = SubSeq(done, 2, Len(done) - 2)

\* C6 amended: the framer starts in ST_WAITNL, so a sentence that comes
\* first in a run is absorbed up to its line end and nothing is emitted for
\* it.  A well-formed sentence that follows a line end (framer in ST_WAITDL)
\* is emitted exactly once, at its first line end, with the bytes between
\* the `$` and that line end; the LF after the CR emits nothing.
C6_FramedOnce ==
    /\ (JustEnded /\ WellFormed(EndedLine)) =>
        /\ Cardinality({k \in DOMAIN emitted : emitted[k].at = Len(done)}) = 1
        /\ \A e \in EmittedAt(Len(done)) : e.line = Tail(EndedLine)
        /\ {e \in Emissions : PrevTerm(Len(done)) < e.at /\ e.at < Len(done)} = {}
    /\ (Len(done) >= 2 /\ IsTerm(Last(done)) /\ IsTerm(done[Len(done) - 1])) =>
        EmittedAt(Len(done)) = {}
    /\ (done # <<>> /\ IsTerm(Last(done)) /\ PrevTerm(Len(done)) = 0) =>
        emitted = <<>>

C6_Witness ==
    /\ Len(done) >= 3
    /\ IsTerm(Last(done)) /\ IsTerm(done[Len(done) - 1]) /\ pc = "run"
    /\ PrevTerm(Len(done) - 1) >= 1
    /\ WellFormed(SubSeq(done, PrevTerm(Len(done) - 1) + 1, Len(done) - 2))
    /\ Len(emitted) = 1
    /\ emitted[1].at = Len(done) - 1
    /\ \E k \in 1..(emitted[1].at - 1) : IsTerm(done[k]) /\ PrevTerm(k) = 0 /\ k > 1

----------------------------------------------------------------------------
(* The checksum family: the run's only read returned CR LF, `$`, a body of *)
(* CsumBodies with at most one bit flipped, `*` and the checksum of the    *)
(* unflipped body, CR LF.                                                  *)

Whole == done \o rdata

\* The one read came back and process() has seen all of it that it will.
AllDone == nread = 1 /\ (rdata = <<>> \/ pc = "exit")

\* The body as it came over the wire.
Sent == SubSeq(Whole, 4, Len(Whole) - 5)

SentFrom(body) ==
    /\ Len(Sent) = Len(body)
    /\ SubSeq(Whole, Len(Whole) - 4, Len(Whole) - 2) = SumText(body)

Diff(s, body) == {p \in DOMAIN body : s[p] # body[p]}

OneBit == {2 ^ b : b \in 0..7}

\* The positions p of body such that body arrived with one bit of its
\* character at p flipped and nothing else changed.
Flips(body) ==
    IF SentFrom(body)
    THEN LET s == Sent
             d == Diff(s, body)
         IN  IF Cardinality(d) = 1 /\ \A p \in d : BitXor(s[p], body[p]) \in OneBit
             THEN d ELSE {}
    ELSE {}

PassedChecksum(e) == e.outcome \in {"settime", "bad_count"}

\* The line's XOR before the first `*` is the value of the hex text after it.
SumMatches(l) ==
    /\ \E i \in DOMAIN l : l[i] = STAR
    /\ LET b == BeforeStar(l)
       IN  XorFold([k \in DOMAIN b |-> CharVal(b[k])], 1, Len(b))
             = strtol16(LineBuf(AfterStar(l)), 0)

----------------------------------------------------------------------------
(* The field-count family: the run's only read returned CR LF, a sentence  *)
(* `$GPRMC,...*HH` with a right checksum, CR LF.                           *)

FieldsAfterWord == Cardinality({i \in DOMAIN Sent : Sent[i] = COMMA})

LastComma == CHOOSE i \in DOMAIN Sent : Sent[i] = COMMA /\ \A m \in (i + 1)..Len(Sent) : Sent[m] # COMMA

LastField == SubSeq(Sent, LastComma + 1, Len(Sent))

\* crack() counts the last field unless it is empty or all white space.
LastFieldCounts == \E k \in DOMAIN LastField : ~isspace(LastField[k])

SetTimeCalled == \E e \in Emissions : e.outcome = "settime"

\* C8 as stated: with exactly 13 fields after the sentence word the body is
\* accepted; with 12 or 14 it is rejected.
C8_Original ==
    AllDone =>
        /\ FieldsAfterWord = 13 => SetTimeCalled
        /\ FieldsAfterWord \in {12, 14} => ~SetTimeCalled

\* C8 amended: the 13 fields that crack() must find include the sentence
\* word.  A checksum-valid GPRMC body whose last field is neither empty nor
\* blank is accepted with exactly 12 fields after the sentence word and
\* rejected with 11 or 13; a last field that is empty or blank is not
\* counted, so such a body is accepted with 13 fields after the word.
C8_FieldCount ==
    AllDone =>
        LET counted == IF LastFieldCounts THEN FieldsAfterWord + 1 ELSE FieldsAfterWord
        IN  /\ Len(emitted) = 1
            /\ emitted[1].line = Sent \o SumText(Sent)
            /\ emitted[1].outcome = IF counted = 13 THEN "settime" ELSE "bad_count"

C8_Witness ==
    /\ AllDone
    /\ FieldsAfterWord = 12 /\ LastField = Str("A")
    /\ SetTimeCalled

----------------------------------------------------------------------------

\* The line in progress: the bytes since the last line end.
CurStart == PrevTerm(Len(done) + 1)

CurLine == SubSeq(done, CurStart + 1, Len(done))

\* A line that starts with `$` and goes on for more bytes than fit.
Overflowed(l) == Len(l) >= 1 /\ l[1] = DOLLAR /\ Len(l) - 1 > BUFFER_SIZE - 2

\* A line that ended at or before index j had overflowed.
OverflowBefore(j) ==
    \E t \in 1..j :
        /\ IsTerm(done[t])
        /\ PrevTerm(t) >= 1
        /\ Overflowed(SubSeq(done, PrevTerm(t) + 1, t - 1))

\* C9: once a captured line is longer than fits, the framer is in ST_WAITNL;
\* when its line end arrives nothing has been emitted for it; and a later
\* line that starts with `$` right after a line end is emitted with exactly
\* its own bytes.
C9_Overflow ==
    /\ (Len(done) > BUFFER_SIZE /\ CurStart >= 1 /\ Overflowed(CurLine)) =>
        state = ST_WAITNL
    /\ (JustEnded /\ Overflowed(EndedLine)) =>
        {e \in Emissions : e.at > PrevTerm(Len(done))} = {}
    /\ (/\ JustEnded
        /\ Len(done) > BUFFER_SIZE
        /\ OverflowBefore(PrevTerm(Len(done)))
        /\ EndedLine # <<>> /\ EndedLine[1] = DOLLAR
        /\ ~Overflowed(EndedLine)
        /\ \A k \in DOMAIN EndedLine : EndedLine[k] # NUL) =>
            \E e \in EmittedAt(Len(done)) : e.line = Tail(EndedLine)

C9_Witness ==
    /\ JustEnded
    /\ Len(done) > BUFFER_SIZE
    /\ OverflowBefore(PrevTerm(Len(done)))
    /\ EndedLine = Sentence(ShortBody)
    /\ Len(emitted) = 1
    /\ emitted[1].line = Tail(Sentence(ShortBody))
    /\ emitted[1].outcome = "settime"

\* C10: a successful settimeofday() ends the process with status 0 at once:
\* it is the last gps_line() call, there is at most one, and no byte after
\* the line end that caused it is processed, be it in rdata already or not
\* yet read.
C10_OneShot ==
    /\ \A k \in DOMAIN emitted :
        emitted[k].ok =>
            /\ pc = "exit" /\ status = 0
            /\ k = Len(emitted)
            /\ Len(done) = emitted[k].at
    /\ Cardinality({k \in DOMAIN emitted : emitted[k].ok}) <= 1

C10_Witness ==
    /\ emitted # <<>> /\ Last(emitted).ok
    /\ rdata # <<>>
    /\ nread < ReadLimit(env)

----------------------------------------------------------------------------
(* crack() as gps_line() calls it: on the line up to its `*`.              *)

\* gps_line() has just been called and no byte was processed since: input
\* is the buffer as the call left it.
JustEmitted == emitted # <<>> /\ Last(emitted).at = Len(done)

\* The string crack() was given: the line up to its first `*`.
Cracked(e) == BeforeStar(e.line)

\* The i-th of the substrings of s that its commas delimit.
CommaCuts(s) == {0, Len(s) + 1} \cup {p \in DOMAIN s : s[p] = COMMA}

NthCut(s, i) == CHOOSE x \in CommaCuts(s) : Cardinality({y \in CommaCuts(s) : y < x}) = i - 1

CommaField(s, i) == SubSeq(s, NthCut(s, i) + 1, NthCut(s, i + 1) - 1)

\* C11 as stated: with maxargs = 20 the count crack() returns never exceeds
\* 20, however many fields the input has.
C11_Original ==
    \A e \in Emissions : PassedChecksum(e) => e.count <= MAXARGS

\* C12 as stated: for a body with k < 20 commas and no white space crack()
\* returns k + 1, and args[i] is the i-th comma-delimited substring, every
\* empty one included, also the one after a trailing comma.
C12_Original ==
    (JustEmitted /\ PassedChecksum(Last(emitted))) =>
        LET e == Last(emitted)
            s == Cracked(e)
            k == CommaFields(s) - 1
        IN  (k < MAXARGS /\ \A i \in DOMAIN s : ~isspace(s[i])) =>
                /\ e.count = k + 1
                /\ Len(e.args) = k + 1
                /\ \A i \in 1..(k + 1) : CStr(input, e.args[i]) = CommaField(s, i)

----------------------------------------------------------------------------
(* getvalue() as gps_line() calls it: at fixed offsets from args[1], the   *)
(* time, and args[9], the date.                                            *)

\* The length of the longest run of leading digits of s, n at most.
LeadLen(s, n) ==
    CHOOSE m \in 0..n :
        /\ m <= Len(s)
        /\ \A i \in 1..m : s[i] \in 48..57
        /\ m = n \/ m = Len(s) \/ s[m + 1] \notin 48..57

\* The number the first m characters of s, all digits, write in decimal.
RECURSIVE Decimal(_, _)
Decimal(s, m) == IF m = 0 THEN 0 ELSE 10 * Decimal(s, m - 1) + (s[m] - 48)

DigitsValue(s, n) == Decimal(s, LeadLen(s, n))

Accepted == JustEmitted /\ Last(emitted).outcome = "settime"

\* The C strings at args[1] and args[9] after crack().
TimeField == CStr(input, Last(emitted).args[2])
DateField == CStr(input, Last(emitted).args[10])

----------------------------------------------------------------------------

\* A line that started with `$` has just ended.
DollarLineEnded == JustEnded /\ EndedLine # <<>> /\ EndedLine[1] = DOLLAR

NoNul(l) == \A k \in DOMAIN l : l[k] # NUL

\* C14 as stated: a body, the bytes between `$` and the line end, of up to
\* 512 bytes is emitted in full.
C14_Original ==
    (DollarLineEnded /\ Len(EndedLine) - 1 <= BUFFER_SIZE /\ NoNul(EndedLine)) =>
        \E e \in EmittedAt(Len(done)) : e.line = Tail(EndedLine)

\* C14 amended: a body of up to 510 bytes (sizeof(input) - 2) is emitted in
\* full, and a body of 511 bytes or more is dropped: nothing is emitted at
\* its line end.
C14_MaxLength ==
    DollarLineEnded =>
        IF Len(EndedLine) - 1 <= BUFFER_SIZE - 2
        THEN NoNul(EndedLine) => \E e \in EmittedAt(Len(done)) : e.line = Tail(EndedLine)
        ELSE EmittedAt(Len(done)) = {}

C14_Witness ==
    /\ DollarLineEnded
    /\ Len(EndedLine) - 1 = BUFFER_SIZE - 2
    /\ \E e \in EmittedAt(Len(done)) : Len(e.line) = BUFFER_SIZE - 2 /\ e.line = Tail(EndedLine)

----------------------------------------------------------------------------

\* The last gps_line() call set the clock, and exit(0) cut process() short.
SetAndExited == emitted # <<>> /\ Last(emitted).ok

\* C15: the framer is in one of its three states; when process() returns
\* from a `\n` or `\r` the state is ST_WAITDL, whatever it was; a run of
\* line ends emits at most once, at its first byte; and there are never
\* more gps_line() calls than line-end bytes processed.
C15_FramerStates ==
    /\ state \in {ST_WAITNL, ST_WAITDL, ST_CAPTURE}
    /\ (done # <<>> /\ IsTerm(Last(done)) /\ ~SetAndExited) => state = ST_WAITDL
    /\ \A k \in DOMAIN emitted :
        /\ emitted[k].at \in DOMAIN done
        /\ IsTerm(done[emitted[k].at])
        /\ emitted[k].at > 1 /\ ~IsTerm(done[emitted[k].at - 1])
        /\ k > 1 => emitted[k - 1].at < emitted[k].at
    /\ emitted = <<>> \/
        Len(emitted) <= Cardinality({k \in DOMAIN done : IsTerm(done[k])})

C15_Witness ==
    /\ Len(done) >= 4
    /\ \A k \in (Len(done) - 2)..Len(done) : IsTerm(done[k])
    /\ Len(emitted) = 1 /\ emitted[1].at = Len(done) - 2
    /\ state = ST_WAITDL /\ pc = "run"

----------------------------------------------------------------------------

\* C16: gps_line() is called only for a line whose first byte after a line
\* end is `$`.  A line that starts with anything else is absorbed up to its
\* line end, a `$GPRMC` later in it included; and a `$` that arrives during
\* a capture is stored as data: the capture goes on from where it was, and
\* the line is emitted with the `$` in it.
C16_DollarFirst ==
    /\ JustEmitted =>
        LET p == PrevTerm(Len(done))
        IN  p >= 1 /\ done[p + 1] = DOLLAR
    /\ (JustEnded /\ EndedLine # <<>> /\ EndedLine[1] # DOLLAR) =>
        {e \in Emissions : e.at > PrevTerm(Len(done))} = {}
    /\ (DollarLineEnded /\ Len(EndedLine) - 1 <= BUFFER_SIZE - 2 /\ NoNul(EndedLine)) =>
        \A e \in EmittedAt(Len(done)) : e.line = Tail(EndedLine)
    /\ (state = ST_CAPTURE /\ pc = "run" /\ Last(done) = DOLLAR) =>
        LET start == CurStart
            l == SubSeq(done, start + 1, Len(done))
        IN  /\ start >= 1
            /\ l[1] = DOLLAR
            /\ inpos = Len(l) - 1
            /\ Len(l) > 1 => input[inpos - 1] = DOLLAR

\* A line with a second `$` in it was emitted whole.
C16_Witness ==
    /\ DollarLineEnded
    /\ \E k \in 2..Len(EndedLine) : EndedLine[k] = DOLLAR
    /\ Len(emitted) = 1
    /\ emitted[1].at = Len(done) /\ emitted[1].line = Tail(EndedLine)

----------------------------------------------------------------------------

\* What is left of field f from offset off on, nothing when f is too short.
FieldFrom(f, off) == IF off < Len(f) THEN SubSeq(f, off + 1, Len(f)) ELSE <<>>

\* C17 as stated: each time component is decoded from the characters of
\* args[1] alone and each date component from those of args[9] alone; a
\* component whose offset lies beyond the end of its field is 0 (month -1,
\* year 100) whatever the other fields hold.
C17_Original ==
    Accepted =>
        LET e == Last(emitted)
            T(off, n) == DigitsValue(FieldFrom(TimeField, off), n)
            D(off, n) == DigitsValue(FieldFrom(DateField, off), n)
        IN  /\ e.tm.hour = T(0, 2) /\ e.tm.min = T(2, 2) /\ e.tm.sec = T(4, 2)
            /\ e.usec = T(7, 3) * 1000
            /\ e.tm.mday = D(0, 2) /\ e.tm.mon = D(2, 2) - 1 /\ e.tm.year = D(4, 2) + 100

----------------------------------------------------------------------------
(* The text after the `*`.                                                 *)

\* The number the hex digits of s write.
RECURSIVE HexNumber(_)
HexNumber(s) == IF s = <<>> THEN 0 ELSE 16 * HexNumber(SubSeq(s, 1, Len(s) - 1)) + HexVal(Last(s))

\* The longest prefix of s that is all hex digits.
HexPrefix(s) ==
    SubSeq(s, 1, CHOOSE m \in 0..Len(s) :
                    /\ \A i \in 1..m : HexVal(s[i]) >= 0
                    /\ m = Len(s) \/ HexVal(s[m + 1]) < 0)

\* The line just passed to gps_line() is an RMC line with a `*` and two
\* hex digits right after it.
TwoDigitLine ==
    /\ JustEmitted
    /\ LET l == Last(emitted).line
       IN  /\ Len(l) >= 5 /\ SubSeq(l, 1, 5) = Str("GPRMC")
           /\ \E i \in DOMAIN l : l[i] = STAR
           /\ Len(AfterStar(l)) >= 2
           /\ HexVal(AfterStar(l)[1]) >= 0 /\ HexVal(AfterStar(l)[2]) >= 0

\* The same line cut off after its two checksum digits.
CutAfterTwo(l) == SubSeq(l, 1, StarAt(l) + 2)

\* C18 as stated: whatever follows the two hex digits after the first `*`,
\* the line fares as the line cut off after the two digits does.
C18_Original ==
    TwoDigitLine =>
        Last(emitted).outcome = gps_line(LineBuf(CutAfterTwo(Last(emitted).line))).outcome

\* C18 amended: the declared checksum is what strtol(cp + 1, NULL, 16)
\* reads: all the hex digits that follow the `*`.  Characters after the two
\* digits change nothing when the first of them is no hex digit; hex digits
\* after the two are part of the number, so `*5C0` is rejected where `*5C`
\* is accepted and `*005C` is accepted where `*00` is rejected.
C18_AllHexDigits ==
    TwoDigitLine =>
        LET e == Last(emitted)
            l == e.line
            after == AfterStar(l)
            b == BeforeStar(l)
            sum == XorFold([k \in DOMAIN b |-> CharVal(b[k])], 1, Len(b))
            cut == gps_line(LineBuf(CutAfterTwo(l)))
        IN  /\ PassedChecksum(e) <=> HexNumber(HexPrefix(after)) = sum
            /\ (Len(after) = 2 \/ HexVal(after[3]) < 0) =>
                /\ e.outcome = cut.outcome
                /\ e.tm = cut.tm /\ e.usec = cut.usec
            /\ (Len(after) > 2 /\ HexVal(after[3]) >= 0 /\ cut.outcome = "settime" /\ sum # 0) =>
                e.outcome = "bad_checksum"

C18_Witness ==
    /\ TwoDigitLine
    /\ Last(emitted).line = ShortBody \o Str("*5C0")
    /\ Last(emitted).outcome = "bad_checksum"

----------------------------------------------------------------------------

\* C19 as stated: the process ends with status 0 only after a successful
\* settimeofday(): in a run that has ended with status 0 the clock was set
\* exactly once.
C19_Original ==
    (pc = "exit" /\ status = 0) =>
        Cardinality({k \in DOMAIN emitted : emitted[k].ok}) = 1

----------------------------------------------------------------------------

\* The last index getvalue(input + p, n) reads: it stops at the first
\* non-digit, which it reads, or after n digits.
LastRead(p, n) ==
    LET run == LeadLen(CStr(input, p), n)
    IN  IF run = n THEN p + n - 1 ELSE p + run

\* C20: the capture index stays in 0..511 and is at most 510 whenever a
\* byte or the NUL is about to be stored at it, it is 0 when a capture
\* begins, crack() fills at most the slots 0..19 of args[], and the reads of
\* getvalue() for an accepted sentence stay at or before the NUL that
\* replaced the `*`.
C20_BoundsSafe ==
    /\ inpos \in 0..(BUFFER_SIZE - 1)
    /\ (state = ST_CAPTURE /\ pc = "run") => inpos <= BUFFER_SIZE - 2
    /\ (/\ state = ST_CAPTURE /\ pc = "run"
        /\ Len(done) >= 2
        /\ Last(done) = DOLLAR /\ IsTerm(done[Len(done) - 1])) => inpos = 0
    /\ \A e \in Emissions : Len(e.args) <= MAXARGS /\ Len(e.line) <= BUFFER_SIZE - 2
    /\ Accepted =>
        LET e == Last(emitted)
            star == StarAt(e.line) - 1
            t == e.args[2]
            d == e.args[10]
        IN  /\ input[star] = NUL
            /\ \A r \in {LastRead(t, 2), LastRead(t + 2, 2), LastRead(t + 4, 2),
                         LastRead(t + 7, 3), LastRead(d, 2), LastRead(d + 2, 2),
                         LastRead(d + 4, 2)} : r <= star

\* The buffer is full to its limit and the line goes on.
C20_Witness ==
    /\ inpos = BUFFER_SIZE - 2
    /\ state = ST_WAITNL /\ pc = "run"
    /\ Len(done) > BUFFER_SIZE
    /\ Overflowed(CurLine)

====
